---- MODULE Spec2Model ----
(***************************************************************************)
(* Model of the persistence substrate of lunarbase:                        *)
(*   - PersistenceLayer (persistence/__init__.py): path getters, the user  *)
(*     scaffold and the storage operations over a local file system;       *)
(*   - the DataSource model family (modeling/datasources/__init__.py).     *)
(*                                                                         *)
(* Strings are sequences of tokens.  The token alphabet is prefix-free, so *)
(* two token sequences are equal exactly when the Python strings they      *)
(* stand for are equal.  "/" is the path separator.                        *)
(***************************************************************************)
EXTENDS Integers, Sequences, FiniteSets, TLC

VARIABLES
    call,       \* the last path getter call: its arguments and its result
    fs,         \* the file system: absolute normal path -> node
    pc,         \* per process: position inside init_user_profile
    result,     \* per process: how its last init_user_profile call ended
    last,       \* the last storage operation: arguments, outcome, paths touched
    entity,     \* the DataSource object held in memory (or NoEntity)
    saved,      \* the DataSource object whose document was last written
    outcome     \* the last DataSource operation: what it was and how it ended

vars == <<call, fs, pc, result, last, entity, saved, outcome>>

(***************************************************************************)
(* Bounds                                                                  *)
(***************************************************************************)
\* longest user id / resource id, in tokens, given to a path getter
MaxLen == 2

(***************************************************************************)
(* pathlib.PurePosixPath                                                   *)
(***************************************************************************)
Sep == "/"

\* number of separators s starts with
RECURSIVE LeadingSeps(_, _)
LeadingSeps(s, i) ==
    IF i <= Len(s) /\ s[i] = Sep THEN 1 + LeadingSeps(s, i + 1) ELSE 0

\* the root of a string: exactly two leading slashes are kept, POSIX-style
Anchor(s) ==
    LET n == LeadingSeps(s, 1)
    IN  IF n = 0 THEN "" ELSE IF n = 2 THEN "//" ELSE "/"

\* the components of s from position i on; cur is the component being read.
\* Empty components (doubled or trailing separators) are dropped.
RECURSIVE SplitFrom(_, _, _)
SplitFrom(s, i, cur) ==
    LET done == IF cur = <<>> THEN <<>> ELSE <<cur>>
    IN  IF i > Len(s) THEN done
        ELSE IF s[i] = Sep THEN done \o SplitFrom(s, i + 1, <<>>)
        ELSE SplitFrom(s, i + 1, Append(cur, s[i]))

Split(s) == SplitFrom(s, 1, <<>>)

\* Path(s)
PathOf(s) == [anchor |-> Anchor(s), parts |-> Split(s)]

\* Path(p, s): a segment with a root discards everything before it
PathJoin(p, s) ==
    IF Anchor(s) # ""
    THEN PathOf(s)
    ELSE [anchor |-> p.anchor, parts |-> p.parts \o Split(s)]

\* Path(p, q) for a second argument that is already a path
PathJoinPath(p, q) ==
    IF q.anchor # "" THEN q
    ELSE [anchor |-> p.anchor, parts |-> p.parts \o q.parts]

(***************************************************************************)
(* Configuration (lunarbase.config.LunarConfig)                            *)
(***************************************************************************)
LUNAR_STORAGE_BASE_PATH == PathOf(<<"/", "BASE">>)
USER_DATA_PATH          == PathOf(<<"/", "BASE", "/", "users">>)
USER_WORKFLOW_ROOT      == <<"workflows">>
USER_DATASOURCE_ROOT    == <<"datasources">>
USER_LLM_ROOT           == <<"llms">>
USER_FILE_ROOT          == <<"files">>
USER_INDEX_ROOT         == <<"index">>
COMPONENT_INDEX_NAME    == <<"component">>
WORKFLOW_INDEX_NAME     == <<"workflow">>
USER_COMPONENT_VENV_ROOT == <<"venv">>
USER_CUSTOM_ROOT        == <<"custom">>
TMP_PATH                == <<"tmp">>
USER_ENVIRONMENT_FILE   == <<"environment">>
LUNAR_STORAGE_TYPE      == "LOCAL"

(***************************************************************************)
(* Path getters of PersistenceLayer                                        *)
(***************************************************************************)
UserDir(user_id) == PathJoin(USER_DATA_PATH, user_id)

get_user_tmp(user_id) == PathJoin(UserDir(user_id), TMP_PATH)

get_user_workflow_root(user_id) == PathJoin(UserDir(user_id), USER_WORKFLOW_ROOT)

get_user_environment_path(user_id) ==
    PathJoin(UserDir(user_id), USER_ENVIRONMENT_FILE)

get_user_component_venv(user_id) ==
    PathJoin(UserDir(user_id), USER_COMPONENT_VENV_ROOT)

get_user_index_root(user_id) == PathJoin(UserDir(user_id), USER_INDEX_ROOT)

get_user_component_index(user_id) ==
    PathJoin(get_user_index_root(user_id), COMPONENT_INDEX_NAME)

get_user_workflow_index(user_id) ==
    PathJoin(get_user_index_root(user_id), WORKFLOW_INDEX_NAME)

get_user_datasource_root(user_id) ==
    PathJoin(UserDir(user_id), USER_DATASOURCE_ROOT)

\* f"{resource_id}.json"
JsonName(resource_id) == resource_id \o <<".json">>

get_datasource_path(user_id, datasource_id) ==
    PathJoin(get_user_datasource_root(user_id), JsonName(datasource_id))

get_user_llm_root(user_id) == PathJoin(UserDir(user_id), USER_LLM_ROOT)

get_llm_path(user_id, llm_id) ==
    PathJoin(get_user_llm_root(user_id), JsonName(llm_id))

get_user_file_root(user_id) == PathJoin(UserDir(user_id), USER_FILE_ROOT)

get_user_custom_root(user_id) == PathJoin(UserDir(user_id), USER_CUSTOM_ROOT)

(***************************************************************************)
(* Path resolution: the getters applied to caller-supplied ids             *)
(***************************************************************************)
Tokens == {"a", "/", "..", "datasources", ".json"}

\* every string of at most MaxLen tokens
Strings == UNION {[1..n -> Tokens] : n \in 0..MaxLen}

Kinds == {"datasource", "llm"}

NoCall == [op |-> "none", kind |-> "-", user_id |-> <<>>, id |-> <<>>,
           path |-> PathOf(<<>>)]

\* resolve(user_id, kind, id) of the namespace: the getter of that kind
ResolvePath(kind, user_id, id) ==
    IF kind = "datasource"
    THEN get_datasource_path(user_id, id)
    ELSE get_llm_path(user_id, id)

\* the arguments are the ones the state holds; the call stores its result
GetDatasourcePath(user_id, datasource_id) ==
    /\ call.op = "none" /\ call.user_id = user_id /\ call.id = datasource_id
    /\ call' = [op |-> "get_path", kind |-> "datasource", user_id |-> user_id,
                id |-> datasource_id,
                path |-> get_datasource_path(user_id, datasource_id)]
    /\ UNCHANGED <<fs, pc, result, last, entity, saved, outcome>>

GetLlmPath(user_id, llm_id) ==
    /\ call.op = "none" /\ call.user_id = user_id /\ call.id = llm_id
    /\ call' = [op |-> "get_path", kind |-> "llm", user_id |-> user_id,
                id |-> llm_id, path |-> get_llm_path(user_id, llm_id)]
    /\ UNCHANGED <<fs, pc, result, last, entity, saved, outcome>>

(***************************************************************************)
(* The local file system.  A node path is the sequence of the components   *)
(* below "/"; fs maps every existing node path to its node.  There are no  *)
(* symbolic links.                                                         *)
(***************************************************************************)
DirNode == [kind |-> "dir", data |-> <<>>]
FileNode(bytes) == [kind |-> "file", data |-> bytes]

Exists(f, n) == n \in DOMAIN f
IsDir(f, n)  == n \in DOMAIN f /\ f[n].kind = "dir"
IsFile(f, n) == n \in DOMAIN f /\ f[n].kind = "file"

Parent(n) == IF n = <<>> THEN <<>> ELSE SubSeq(n, 1, Len(n) - 1)

IsPrefix(a, b) == Len(a) <= Len(b) /\ SubSeq(b, 1, Len(a)) = a

DotDot == <<"..">>

\* Path.resolve() without symbolic links: ".." removes the component before it
RECURSIVE Collapse(_, _, _)
Collapse(parts, i, acc) ==
    IF i > Len(parts) THEN acc
    ELSE IF parts[i] = DotDot THEN Collapse(parts, i + 1, Parent(acc))
    ELSE Collapse(parts, i + 1, Append(acc, parts[i]))

Resolve(p) == [anchor |-> "/", parts |-> Collapse(p.parts, 1, <<>>)]

\* The kernel's lookup of an absolute path: every component but the last
\* must lead to an existing directory.  [ok, node]
RECURSIVE WalkFrom(_, _, _, _)
WalkFrom(f, parts, i, cur) ==
    IF i > Len(parts) THEN [ok |-> TRUE, node |-> cur]
    ELSE LET nxt == IF parts[i] = DotDot THEN Parent(cur)
                    ELSE Append(cur, parts[i])
         IN  IF i < Len(parts) /\ ~IsDir(f, nxt)
             THEN [ok |-> FALSE, node |-> nxt]
             ELSE WalkFrom(f, parts, i + 1, nxt)

Walk(f, p) == WalkFrom(f, p.parts, 1, <<>>)

\* the nodes at or below n
Subtree(f, n) == {m \in DOMAIN f : IsPrefix(n, m)}

\* f without the nodes in gone
Without(f, gone) == [m \in (DOMAIN f) \ gone |-> f[m]]

\* f with node n set
With(f, n, node) == [m \in (DOMAIN f) \cup {n} |-> IF m = n THEN node ELSE f[m]]

\* the proper and improper ancestors of n that are missing in f
MissingUpTo(f, n) == {SubSeq(n, 1, k) : k \in 0..Len(n)} \ DOMAIN f

\* Path(n).mkdir(parents=True, exist_ok=exist_ok) for a normal absolute path:
\* os.mkdir fails on an existing node; with exist_ok the error is swallowed
\* only when the node is a directory; a file on the way is an error.
MkdirWith(f, n, exist_ok) ==
    IF Exists(f, n)
    THEN IF exist_ok /\ IsDir(f, n)
         THEN [err |-> "none", fs |-> f, made |-> {}]
         ELSE [err |-> "FileExistsError", fs |-> f, made |-> {}]
    ELSE IF \E k \in 0..Len(n) : IsFile(f, SubSeq(n, 1, k))
    THEN [err |-> "NotADirectoryError", fs |-> f, made |-> {}]
    ELSE [err |-> "none",
          fs |-> [m \in (DOMAIN f) \cup MissingUpTo(f, n) |->
                    IF m \in DOMAIN f THEN f[m] ELSE DirNode],
          made |-> MissingUpTo(f, n)]

MkdirFailIfExists(f, n) == MkdirWith(f, n, FALSE)

\* mkdir(parents=True, exist_ok=True), as every call of the source has it
Mkdir(f, n) == MkdirWith(f, n, TRUE)

\* Path(n).touch(exist_ok=True)
Touch(f, n) ==
    IF Exists(f, n) THEN [err |-> "none", fs |-> f, made |-> {}]
    ELSE IF ~IsDir(f, Parent(n))
    THEN [err |-> "FileNotFoundError", fs |-> f, made |-> {}]
    ELSE [err |-> "none", fs |-> With(f, n, FileNode(<<>>)), made |-> {n}]

(***************************************************************************)
(* init_user_profile: the user scaffold, one file-system call per step.    *)
(* Scaffold calls are made for plain user ids (one component, no "..").    *)
(***************************************************************************)
Procs == {"p1", "p2"}

ScaffoldUsers == {<<"u">>}

\* the node a path without ".." names
NodeOf(p) == p.parts

ScaffoldStepsWithoutTmp(user_id) ==
    << [op |-> "mkdir", node |-> NodeOf(get_user_workflow_root(user_id))],
       [op |-> "mkdir", node |-> NodeOf(get_user_datasource_root(user_id))],
       [op |-> "mkdir", node |-> NodeOf(get_user_llm_root(user_id))],
       [op |-> "mkdir", node |-> NodeOf(get_user_file_root(user_id))],
       [op |-> "mkdir", node |-> NodeOf(get_user_index_root(user_id))],
       [op |-> "mkdir", node |-> NodeOf(get_user_component_index(user_id))],
       [op |-> "mkdir", node |-> NodeOf(get_user_workflow_index(user_id))],
       [op |-> "mkdir", node |-> NodeOf(get_user_custom_root(user_id))],
       [op |-> "mkdir", node |-> NodeOf(get_user_custom_root(user_id))],
       [op |-> "touch", node |-> NodeOf(get_user_environment_path(user_id))] >>

\* the file-system calls of init_user_profile, in program order
ScaffoldSteps(user_id) ==
    << [op |-> "mkdir", node |-> NodeOf(get_user_workflow_root(user_id))],
       [op |-> "mkdir", node |-> NodeOf(get_user_datasource_root(user_id))],
       [op |-> "mkdir", node |-> NodeOf(get_user_llm_root(user_id))],
       [op |-> "mkdir", node |-> NodeOf(get_user_file_root(user_id))],
       [op |-> "mkdir", node |-> NodeOf(get_user_index_root(user_id))],
       [op |-> "mkdir", node |-> NodeOf(get_user_component_index(user_id))],
       [op |-> "mkdir", node |-> NodeOf(get_user_workflow_index(user_id))],
       [op |-> "mkdir", node |-> NodeOf(get_user_custom_root(user_id))],
       [op |-> "mkdir", node |-> NodeOf(get_user_tmp(user_id))],
       [op |-> "touch", node |-> NodeOf(get_user_environment_path(user_id))] >>

\* the steps of every user of the model, computed once
StepsOf == [u \in ScaffoldUsers |-> ScaffoldSteps(u)]

NumSteps == Len(ScaffoldSteps(<<"u">>))

\* one step applied to a file system
ApplyStep(f, step) ==
    IF step.op = "mkdir" THEN Mkdir(f, step.node) ELSE Touch(f, step.node)

\* the file system before any user exists: the storage roots only
\* (init_local_storage creates them)
BaseFs ==
    [n \in {<<>>, LUNAR_STORAGE_BASE_PATH.parts, USER_DATA_PATH.parts} |-> DirNode]

\* the whole of init_user_profile run from step i on, alone
RECURSIVE RunFrom(_, _, _)
RunFrom(f, user_id, i) ==
    IF i > NumSteps THEN f
    ELSE LET r == ApplyStep(f, StepsOf[user_id][i])
         IN  IF r.err # "none" THEN f ELSE RunFrom(r.fs, user_id, i + 1)

\* what a user's area holds: the nodes below the user's directory
UserArea(f, user_id) ==
    LET root == NodeOf(UserDir(user_id))
    IN  [n \in Subtree(f, root) |-> f[n]]

\* how much of the scaffold a file system holds for a user
\* the area a single call leaves for a user that had none
FullArea == [u \in ScaffoldUsers |-> UserArea(RunFrom(BaseFs, u, 1), u)]

Found(f, user_id) ==
    LET have == DOMAIN UserArea(f, user_id)
        full == DOMAIN FullArea[user_id]
    IN  IF have = {} THEN "empty"
        ELSE IF have = full THEN "full" ELSE "partial"

\* where a process is: the step it is at (0: not in a call), and within a
\* step taken system call by system call, the calls still to make
Idle == [at |-> 0, user_id |-> <<>>, found |-> "-", todo |-> <<>>]
\* a call's result: how it ended, what it found when it was entered and,
\* when it completed, the user's area as the call left it
NoResult == [status |-> "none", user_id |-> <<>>, found |-> "-", area |-> <<>>]

AllIdle == \A p \in Procs : pc[p].at = 0

\* entry of init_user_profile: the storage type check
CallInitUserProfile(p, user_id) ==
    /\ pc[p].at = 0
    /\ IF LUNAR_STORAGE_TYPE # "LOCAL"
       THEN /\ result' = [result EXCEPT ![p] =
                    [status |-> "NotImplementedError", user_id |-> user_id,
                     found |-> Found(fs, user_id), area |-> <<>>]]
            /\ pc' = pc
       ELSE /\ pc' = [pc EXCEPT ![p] =
                    [at |-> 1, user_id |-> user_id, found |-> Found(fs, user_id),
                     todo |-> <<>>]]
            /\ result' = [result EXCEPT ![p] = NoResult]
    /\ UNCHANGED <<call, fs, last, entity, saved, outcome>>

\* the next mkdir / touch of a running call; an error ends the call
InitUserProfileStep(p) ==
    /\ pc[p].at \in 1..NumSteps
    /\ LET r == ApplyStep(fs, StepsOf[pc[p].user_id][pc[p].at])
           ends == r.err # "none" \/ pc[p].at = NumSteps
       IN  /\ fs' = r.fs
           /\ pc' = [pc EXCEPT ![p] =
                        IF ends THEN Idle ELSE [pc[p] EXCEPT !.at = @ + 1]]
           /\ result' = [result EXCEPT ![p] =
                        IF ends
                        THEN [status |-> IF r.err # "none" THEN r.err ELSE "ok",
                              user_id |-> pc[p].user_id, found |-> pc[p].found,
                              area |-> IF r.err # "none" THEN <<>>
                                       ELSE UserArea(r.fs, pc[p].user_id)]
                        ELSE @]
    /\ UNCHANGED <<call, last, entity, saved, outcome>>

\* a file-system call of a running call fails for a reason of the
\* environment (disk full, permissions): the OSError propagates and the call
\* ends where it is
InitUserProfileFails(p) ==
    /\ pc[p].at \in 1..NumSteps
    /\ pc' = [pc EXCEPT ![p] = Idle]
    /\ result' = [result EXCEPT ![p] =
                    [status |-> "OSError", user_id |-> pc[p].user_id,
                     found |-> pc[p].found, area |-> <<>>]]
    /\ UNCHANGED <<call, fs, last, entity, saved, outcome>>

(***************************************************************************)
(* init_user_profile system call by system call, as concurrent callers     *)
(* interleave.  Path.mkdir(parents=True, exist_ok=True) tries os.mkdir; on *)
(* FileNotFoundError it makes the parent the same way and tries again      *)
(* without parents; any other OSError is swallowed when exist_ok and the   *)
(* path is a directory.  Path.touch(exist_ok=True) tries os.utime and, if  *)
(* that fails, os.open with O_CREAT.                                       *)
(***************************************************************************)
SysCall(sys, node, parents) == [sys |-> sys, node |-> node, parents |-> parents]

\* the system calls a step starts with
FirstCall(step) ==
    IF step.op = "mkdir" THEN <<SysCall("mkdir", step.node, TRUE)>>
    ELSE <<SysCall("utime", step.node, FALSE)>>

\* the first of the system calls in todo, made on f: the error it raises to
\* the caller of Path.mkdir / Path.touch, the file system, and the calls
\* that remain
SysCallWith(f, todo, exist_ok) ==
    LET c == Head(todo)
        n == c.node
        raise(e) == [err |-> e, fs |-> f, todo |-> <<>>]
        next(g)  == [err |-> "none", fs |-> g, todo |-> Tail(todo)]
    IN  IF c.sys = "mkdir"
        THEN IF Exists(f, n)
             THEN (IF exist_ok /\ IsDir(f, n) THEN next(f)
                   ELSE raise("FileExistsError"))
             ELSE IF n # <<>> /\ IsFile(f, Parent(n))
             THEN raise("NotADirectoryError")
             ELSE IF n # <<>> /\ ~Exists(f, Parent(n))
             THEN (IF ~c.parents THEN raise("FileNotFoundError")
                   ELSE [err |-> "none", fs |-> f,
                         todo |-> <<SysCall("mkdir", Parent(n), TRUE),
                                    SysCall("mkdir", n, FALSE)>> \o Tail(todo)])
             ELSE next(With(f, n, DirNode))
        ELSE IF c.sys = "utime"
        THEN IF Exists(f, n) THEN next(f)
             ELSE [err |-> "none", fs |-> f,
                   todo |-> <<SysCall("open", n, FALSE)>> \o Tail(todo)]
        ELSE IF Exists(f, n)
             THEN (IF IsDir(f, n) THEN raise("IsADirectoryError") ELSE next(f))
             ELSE IF ~IsDir(f, Parent(n)) THEN raise("FileNotFoundError")
             ELSE next(With(f, n, FileNode(<<>>)))

SysCallFailIfExists(f, todo) == SysCallWith(f, todo, FALSE)

\* exist_ok=True, as every call of the source has it
SysCallOf(f, todo) == SysCallWith(f, todo, TRUE)

\* one system call of a running call; an error ends the call, the last
\* system call of the last step completes it
InitUserProfileSysCall(p) ==
    /\ pc[p].at \in 1..NumSteps
    /\ LET todo == IF pc[p].todo = <<>>
                   THEN FirstCall(StepsOf[pc[p].user_id][pc[p].at])
                   ELSE pc[p].todo
           r == SysCallOf(fs, todo)
           failed == r.err # "none"
           stepDone == ~failed /\ r.todo = <<>>
           ends == failed \/ (stepDone /\ pc[p].at = NumSteps)
       IN  /\ fs' = r.fs
           /\ pc' = [pc EXCEPT ![p] =
                        IF ends THEN Idle
                        ELSE IF stepDone
                        THEN [pc[p] EXCEPT !.at = @ + 1, !.todo = <<>>]
                        ELSE [pc[p] EXCEPT !.todo = r.todo]]
           /\ result' = [result EXCEPT ![p] =
                        IF ends
                        THEN [status |-> IF failed THEN r.err ELSE "ok",
                              user_id |-> pc[p].user_id, found |-> pc[p].found,
                              area |-> IF failed THEN <<>>
                                       ELSE UserArea(r.fs, pc[p].user_id)]
                        ELSE @]
    /\ UNCHANGED <<call, last, entity, saved, outcome>>

(***************************************************************************)
(* JSON values and their text.  A value is a string, null or a mapping;    *)
(* the text is a token sequence: "s" v for a string, "null", and           *)
(* "{" ("k" key value)* "}" for a mapping.                                 *)
(***************************************************************************)
Str(v) == [t |-> "str", v |-> v]
Null   == [t |-> "null"]
Map(m) == [t |-> "map", m |-> m]
EmptyFn == [k \in {} |-> Null]

\* the order in which keys are written (dict order of the dumped models)
KeyOrder == <<"id", "name", "description", "type", "connectionAttributes",
              "connection_attributes", "file_name", "file_type",
              "host", "credentials", "database", "extra">>

\* json.dumps(value); DumpsFrom writes the members of a mapping from key
\* number i on
RECURSIVE DumpsFrom(_, _)
RECURSIVE Dumps(_)
Dumps(v) ==
    IF v.t = "str" THEN <<"s", v.v>>
    ELSE IF v.t = "null" THEN <<"null">>
    ELSE <<"{">> \o DumpsFrom(v.m, 1) \o <<"}">>

DumpsFrom(m, i) ==
    IF i > Len(KeyOrder) THEN <<>>
    ELSE (IF KeyOrder[i] \in DOMAIN m
          THEN <<"k", KeyOrder[i]>> \o Dumps(m[KeyOrder[i]])
          ELSE <<>>) \o DumpsFrom(m, i + 1)

Bad == [ok |-> FALSE, val |-> Null, next |-> 0]

\* json.loads: the value that starts at token i, and where it ends
RECURSIVE ParseValue(_, _)
RECURSIVE ParseMembers(_, _, _)
ParseValue(ts, i) ==
    IF i > Len(ts) THEN Bad
    ELSE IF ts[i] = "s"
    THEN IF i + 1 > Len(ts) THEN Bad
         ELSE [ok |-> TRUE, val |-> Str(ts[i + 1]), next |-> i + 2]
    ELSE IF ts[i] = "null" THEN [ok |-> TRUE, val |-> Null, next |-> i + 1]
    ELSE IF ts[i] = "{" THEN ParseMembers(ts, i + 1, EmptyFn)
    ELSE Bad

ParseMembers(ts, i, acc) ==
    IF i > Len(ts) THEN Bad
    ELSE IF ts[i] = "}" THEN [ok |-> TRUE, val |-> Map(acc), next |-> i + 1]
    ELSE IF ts[i] = "k" /\ i + 1 <= Len(ts)
    THEN LET v == ParseValue(ts, i + 2)
         IN  IF ~v.ok THEN Bad
             ELSE ParseMembers(ts, v.next,
                    [k \in (DOMAIN acc) \cup {ts[i + 1]} |->
                        IF k = ts[i + 1] THEN v.val ELSE acc[k]])
    ELSE Bad

\* json.loads(bytes): the whole text must be one value
Loads(ts) ==
    LET v == ParseValue(ts, 1)
    IN  IF v.ok /\ v.next = Len(ts) + 1
        THEN [err |-> "none", val |-> v.val]
        ELSE [err |-> "JSONDecodeError", val |-> Null]

(***************************************************************************)
(* prefect's LocalFileSystem, the flow_storage of the persistence layer    *)
(***************************************************************************)
\* _resolve_path: a relative path is put under the base path as it is; an
\* absolute one is resolved and must lie at or below the base path
resolve_path(p) ==
    IF p.anchor = ""
    THEN [err |-> "none", path |-> PathJoinPath(LUNAR_STORAGE_BASE_PATH, p)]
    ELSE LET r == [anchor |-> p.anchor, parts |-> Collapse(p.parts, 1, <<>>)]
         IN  IF r.anchor = LUNAR_STORAGE_BASE_PATH.anchor
                /\ IsPrefix(LUNAR_STORAGE_BASE_PATH.parts, r.parts)
             THEN [err |-> "none", path |-> r]
             ELSE [err |-> "ValueError:outside_base", path |-> r]

\* write_path(path, content), for the absolute paths its callers give it:
\* resolve, make the parent directories, refuse a non-file, write
write_path(f, p, content) ==
    LET r == resolve_path(p)
        n == r.path.parts
        mk == Mkdir(f, Parent(n))
    IN  IF r.err # "none"
        THEN [err |-> r.err, fs |-> f, touched |-> {}]
        ELSE IF mk.err # "none"
        THEN [err |-> mk.err, fs |-> f, touched |-> {}]
        ELSE IF Exists(mk.fs, n) /\ ~IsFile(mk.fs, n)
        THEN [err |-> "ValueError:not_a_file", fs |-> mk.fs, touched |-> mk.made]
        ELSE [err |-> "none", fs |-> With(mk.fs, n, FileNode(content)),
              touched |-> mk.made \cup {n}]

\* how the kernel's lookup of a path fails
WalkError(f, w) ==
    IF ~w.ok
    THEN (IF IsFile(f, w.node) THEN "NotADirectoryError" ELSE "FileNotFoundError")
    ELSE IF ~Exists(f, w.node) THEN "FileNotFoundError" ELSE "none"

\* read_path(path): resolve, the path must exist and be a file, read
read_path(f, p) ==
    LET r == resolve_path(p)
        w == Walk(f, r.path)
    IN  IF r.err # "none"
        THEN [err |-> r.err, data |-> <<>>, touched |-> {}]
        ELSE IF WalkError(f, w) # "none"
        THEN [err |-> "ValueError:does_not_exist", data |-> <<>>, touched |-> {}]
        ELSE IF ~IsFile(f, w.node)
        THEN [err |-> "ValueError:not_a_file", data |-> <<>>, touched |-> {}]
        ELSE [err |-> "none", data |-> f[w.node].data, touched |-> {w.node}]

(***************************************************************************)
(* Storage operations of PersistenceLayer.  last records the operation,    *)
(* its outcome and the nodes whose content it read, wrote, created or      *)
(* removed through its storage path (touched).                             *)
(***************************************************************************)
InBase(n) == IsPrefix(LUNAR_STORAGE_BASE_PATH.parts, n)

NoOp == [op |-> "none", path |-> PathOf(<<>>), arg |-> <<>>, kw |-> "absent",
         err |-> "none", ret |-> "-", vals |-> <<>>, touched |-> {},
         target |-> <<>>, existed |-> FALSE]

Done(op, path, err) == [NoOp EXCEPT !.op = op, !.path = path, !.err = err]

\* where the operation's path argument leads in the file system
TargetOf(f, p) == Walk(f, resolve_path(p).path).node

\* whether something exists where the path argument leads
TargetExists(f, p) == WalkError(f, Walk(f, resolve_path(p).path)) = "none"

\* save_to_storage_as_json(path, data)
save_to_storage_as_json(f, path, data) ==
    LET r == resolve_path(path)
        w == write_path(f, r.path, Dumps(data))
    IN  IF r.err # "none"
        THEN [fs |-> f, out |-> Done("save_json", path, "ValueError:invalid_path")]
        ELSE IF w.err # "none"
        THEN [fs |-> w.fs,
              out |-> [Done("save_json", path, "ValueError:save_failed")
                         EXCEPT !.touched = w.touched]]
        ELSE [fs |-> w.fs,
              out |-> [Done("save_json", path, "none")
                         EXCEPT !.touched = w.touched, !.ret = "path"]]

get_from_storage_or_empty(f, path) ==
    LET r == read_path(f, path)
        v == Loads(r.data)
    IN  IF r.err # "none" THEN Done("get", path, r.err)
        ELSE [Done("get", path, "none")
                EXCEPT !.touched = r.touched, !.ret = "dict",
                       !.vals = <<IF v.err = "none" THEN v.val ELSE Map(EmptyFn)>>]

\* get_from_storage_as_dict(path)
get_from_storage_as_dict(f, path) ==
    LET r == read_path(f, path)
        v == Loads(r.data)
    IN  IF r.err # "none" THEN Done("get", path, r.err)
        ELSE IF v.err # "none"
        THEN [Done("get", path, v.err) EXCEPT !.touched = r.touched]
        ELSE [Done("get", path, "none")
                EXCEPT !.touched = r.touched, !.vals = <<v.val>>, !.ret = "dict"]

\* the body of delete(path), with the missing_ok of its unlink call
delete_with(f, path, unlink_missing_ok) ==
    LET r == resolve_path(path)
        w == Walk(f, r.path)
    IN  IF r.err # "none"
        THEN [fs |-> f, out |-> Done("delete", path, "ValueError:invalid_path")]
        ELSE IF LUNAR_STORAGE_TYPE # "LOCAL"
        THEN [fs |-> f, out |-> Done("delete", path, "ValueError:storage_type")]
        ELSE IF w.ok /\ IsDir(f, w.node)
        THEN \* shutil.rmtree
             LET gone == Subtree(f, w.node) \ {<<>>}
             IN  [fs |-> Without(f, gone),
                  out |-> [Done("delete", path, "none")
                             EXCEPT !.touched = gone, !.ret = "True"]]
        ELSE \* Path.unlink(missing_ok=False)
             IF WalkError(f, w) # "none"
             THEN IF unlink_missing_ok /\ WalkError(f, w) = "FileNotFoundError"
                  THEN [fs |-> f,
                        out |-> [Done("delete", path, "none") EXCEPT !.ret = "True"]]
                  ELSE [fs |-> f, out |-> Done("delete", path, WalkError(f, w))]
             ELSE [fs |-> Without(f, {w.node}),
                   out |-> [Done("delete", path, "none")
                              EXCEPT !.touched = {w.node}, !.ret = "True"]]

delete_ignoring_missing(f, path) == delete_with(f, path, TRUE)

\* delete(path): unlink(missing_ok=False)
delete(f, path) == delete_with(f, path, FALSE)

\* a call delete(path) or delete(path, missing_ok=...): Python rejects an
\* argument the signature does not have before the body runs
Delete(path, missing_ok) ==
    /\ LET d == delete(fs, path)
       IN  IF missing_ok # "absent"
           THEN /\ fs' = fs
                /\ last' = [Done("delete", path, "TypeError")
                              EXCEPT !.kw = missing_ok,
                                     !.target = TargetOf(fs, path),
                                     !.existed = TargetExists(fs, path)]
           ELSE /\ fs' = d.fs
                /\ last' = [d.out EXCEPT !.target = TargetOf(fs, path),
                                         !.existed = TargetExists(fs, path)]
    /\ UNCHANGED <<call, pc, result, entity, saved, outcome>>

SaveToStorageAsJson(path, data) ==
    /\ LET r == save_to_storage_as_json(fs, path, data)
       IN  /\ fs' = r.fs
           /\ last' = [r.out EXCEPT !.target = TargetOf(fs, path),
                                    !.existed = TargetExists(fs, path)]
    /\ UNCHANGED <<call, pc, result, entity, saved, outcome>>

GetFromStorageAsDict(path) ==
    /\ last' = [get_from_storage_as_dict(fs, path)
                  EXCEPT !.target = TargetOf(fs, path),
                         !.existed = TargetExists(fs, path)]
    /\ UNCHANGED <<call, fs, pc, result, entity, saved, outcome>>

\* --- save_to_storage_as_json as concurrent callers interleave: write_path
\* opens the file with mode "wb" (made empty, position 0) and the bytes
\* reach the file when the buffered writer is flushed at close ---

\* bytes written at position 0 of a file that holds old
Overlay(old, bytes) ==
    IF Len(bytes) >= Len(old) THEN bytes
    ELSE bytes \o SubSeq(old, Len(bytes) + 1, Len(old))

\* the call up to the open: the path is resolved, the parents are made, the
\* file is opened and is empty
SaveOpens(p, path, data) ==
    /\ pc[p].at = 0
    /\ LET r == save_to_storage_as_json(fs, path, Map(EmptyFn))
           o == write_path(fs, resolve_path(path).path, <<>>)
       IN  IF r.out.err # "none"
           THEN /\ fs' = r.fs
                /\ pc' = pc
                /\ result' = [result EXCEPT ![p] =
                      [status |-> r.out.err, path |-> path, data |-> Dumps(data)]]
           ELSE /\ fs' = o.fs
                /\ pc' = [pc EXCEPT ![p] =
                      [at |-> 1, path |-> path, data |-> Dumps(data)]]
                /\ result' = [result EXCEPT ![p] = NoResult]
    /\ UNCHANGED <<call, last, entity, saved, outcome>>

\* the flush at close: the bytes go to position 0 of whatever the file
\* holds now, and the call returns
SaveWrites(p) ==
    /\ pc[p].at = 1
    /\ LET n == resolve_path(pc[p].path).path.parts
       IN  /\ fs' = With(fs, n, FileNode(Overlay(fs[n].data, pc[p].data)))
           /\ last' = [Done("write", pc[p].path, "none")
                         EXCEPT !.arg = pc[p].data, !.touched = {n}]
    /\ pc' = [pc EXCEPT ![p] = Idle]
    /\ result' = [result EXCEPT ![p] =
          [status |-> "ok", path |-> pc[p].path, data |-> pc[p].data]]
    /\ UNCHANGED <<call, entity, saved, outcome>>

\* open(path, "wb") and a write of content, on a path given to the kernel as
\* it is
OpenWrite(f, p, content) ==
    LET w == Walk(f, p)
    IN  IF ~w.ok THEN [err |-> WalkError(f, w), fs |-> f, touched |-> {}]
        ELSE IF IsDir(f, w.node)
        THEN [err |-> "IsADirectoryError", fs |-> f, touched |-> {}]
        ELSE [err |-> "none", fs |-> With(f, w.node, FileNode(content)),
              touched |-> {w.node}]

\* save_file_to_storage(path, file): file has a filename and a content
save_file_to_storage(f, path, file) ==
    LET r == resolve_path(path)
        dest == PathJoin(r.path, file.filename)
        w == write_path(f, dest, <<>>)
        o == OpenWrite(w.fs, dest, file.content)
    IN  IF r.err # "none"
        THEN [fs |-> f, out |-> Done("save_file", path, "ValueError:invalid_path")]
        ELSE IF LUNAR_STORAGE_TYPE # "LOCAL"
        THEN [fs |-> f, out |-> Done("save_file", path, "ValueError:storage_type")]
        ELSE IF w.err # "none"
        THEN [fs |-> w.fs,
              out |-> [Done("save_file", path, "ValueError:save_failed")
                         EXCEPT !.touched = w.touched]]
        ELSE IF o.err # "none"
        THEN [fs |-> o.fs,
              out |-> [Done("save_file", path, "ValueError:save_failed")
                         EXCEPT !.touched = w.touched]]
        ELSE [fs |-> o.fs,
              out |-> [Done("save_file", path, "none")
                         EXCEPT !.touched = w.touched \cup o.touched,
                                !.ret = "path"]]

SaveFileToStorage(path, file) ==
    /\ LET r == save_file_to_storage(fs, path, file)
           dest == Walk(fs, Resolve(PathJoin(resolve_path(path).path,
                                             file.filename))).node
       IN  /\ fs' = r.fs
           /\ last' = [r.out EXCEPT !.arg = file.filename, !.target = dest,
                                    !.existed = Exists(fs, dest)]
    /\ UNCHANGED <<call, pc, result, entity, saved, outcome>>

\* Path(s).name: the last component
NameOf(p) == IF p.parts = <<>> THEN <<>> ELSE p.parts[Len(p.parts)]

\* save_file_to_storage_from_path(from_path_with_filename, to_path_dir);
\* shutil.copy reads the source where it is
save_file_to_storage_from_path(f, from, to) ==
    LET r == resolve_path(to)
        dest == PathJoin(r.path, NameOf(from))
        w == write_path(f, dest, <<>>)
        src == Walk(w.fs, from)
        o == OpenWrite(w.fs, dest, w.fs[src.node].data)
    IN  IF r.err # "none"
        THEN [fs |-> f, out |-> Done("save_from_path", to, "ValueError:invalid_path")]
        ELSE IF LUNAR_STORAGE_TYPE # "LOCAL"
        THEN [fs |-> f, out |-> Done("save_from_path", to, "ValueError:storage_type")]
        ELSE IF w.err # "none"
        THEN [fs |-> w.fs,
              out |-> [Done("save_from_path", to, "ValueError:save_failed")
                         EXCEPT !.touched = w.touched]]
        ELSE IF ~(src.ok /\ IsFile(w.fs, src.node))
        THEN [fs |-> w.fs,
              out |-> [Done("save_from_path", to, "ValueError:save_failed")
                         EXCEPT !.touched = w.touched]]
        ELSE IF o.err # "none"
        THEN [fs |-> o.fs,
              out |-> [Done("save_from_path", to, "ValueError:save_failed")
                         EXCEPT !.touched = w.touched]]
        ELSE [fs |-> o.fs,
              out |-> [Done("save_from_path", to, "none")
                         EXCEPT !.touched = w.touched \cup o.touched,
                                !.ret = "path"]]

SaveFileToStorageFromPath(from, to) ==
    /\ LET r == save_file_to_storage_from_path(fs, from, to)
           dest == Walk(fs, Resolve(PathJoin(resolve_path(to).path,
                                             NameOf(from)))).node
       IN  /\ fs' = r.fs
           /\ last' = [r.out EXCEPT !.arg = NameOf(from), !.target = dest,
                                    !.existed = Exists(fs, dest)]
    /\ UNCHANGED <<call, pc, result, entity, saved, outcome>>

(***************************************************************************)
(* glob.glob and get_all_as_dict                                           *)
(***************************************************************************)
Star == "*"

\* fnmatch of a component against a pattern; "*" matches any run of tokens
RECURSIVE Match(_, _, _, _)
Match(pat, i, name, j) ==
    IF i > Len(pat) THEN j > Len(name)
    ELSE IF pat[i] = Star
    THEN Match(pat, i + 1, name, j)
         \/ (j <= Len(name) /\ Match(pat, i, name, j + 1))
    ELSE j <= Len(name) /\ pat[i] = name[j] /\ Match(pat, i + 1, name, j + 1)

HasMagic(c) == \E i \in 1..Len(c) : c[i] = Star

\* a name that starts with a dot
Hidden(c) == c # <<>> /\ c[1] \in {"..", ".json", ".JSON"}

Children(f, n) ==
    {m[Len(m)] : m \in {x \in DOMAIN f : Len(x) = Len(n) + 1 /\ IsPrefix(n, x)}}

\* glob.glob(str(p)), not recursive: the set of the paths that match
Glob(f, p) ==
    IF p.parts = <<>> THEN {p}
    ELSE LET dir == [anchor |-> p.anchor, parts |-> Parent(p.parts)]
             base == NameOf(p)
             dw == Walk(f, dir)
         IN  IF ~HasMagic(base)
             THEN (IF WalkError(f, Walk(f, p)) = "none" THEN {p} ELSE {})
             ELSE IF ~(dw.ok /\ IsDir(f, dw.node)) THEN {}
             ELSE {[anchor |-> p.anchor, parts |-> Append(dir.parts, c)] :
                     c \in {x \in Children(f, dw.node) :
                              /\ Match(base, 1, x, 1)
                              /\ Hidden(x) => Hidden(base)}}

Lower(tok) == IF tok = ".JSON" THEN ".json" ELSE tok

\* str(element_path).lower().endswith(".json")
EndsWithJson(p) ==
    /\ p.parts # <<>>
    /\ Lower(NameOf(p)[Len(NameOf(p))]) = ".json"

\* every order in which the elements of S can be listed
Orders(S) ==
    {o \in [1..Cardinality(S) -> S] :
        \A i, j \in 1..Cardinality(S) : o[i] = o[j] => i = j}

RECURSIVE ReadAllSkippingErrors(_, _, _, _)
ReadAllSkippingErrors(f, paths, i, acc) ==
    IF i > Len(paths) THEN acc
    ELSE LET g == get_from_storage_as_dict(f, paths[i])
         IN  IF ~EndsWithJson(paths[i]) \/ g.err # "none"
             THEN ReadAllSkippingErrors(f, paths, i + 1, acc)
             ELSE ReadAllSkippingErrors(f, paths, i + 1,
                    [acc EXCEPT !.touched = @ \cup g.touched,
                                !.vals = @ \o g.vals])

\* the loop of get_all_as_dict over element_paths from element i on
RECURSIVE ReadAll(_, _, _, _)
ReadAll(f, paths, i, acc) ==
    IF i > Len(paths) THEN acc
    ELSE IF ~EndsWithJson(paths[i]) THEN ReadAll(f, paths, i + 1, acc)
    ELSE LET g == get_from_storage_as_dict(f, paths[i])
         IN  IF g.err # "none"
             THEN [acc EXCEPT !.err = g.err,
                              !.touched = @ \cup g.touched, !.vals = <<>>]
             ELSE ReadAll(f, paths, i + 1,
                    [acc EXCEPT !.touched = @ \cup g.touched,
                                !.vals = @ \o g.vals])

\* get_all_as_dict(path), with glob listing the matches in the order given
get_all_as_dict(f, path, order) ==
    LET r == resolve_path(path)
    IN  IF r.err # "none" THEN Done("get_all", path, "ValueError:invalid_path")
        ELSE IF LUNAR_STORAGE_TYPE # "LOCAL"
        THEN Done("get_all", path, "ValueError:storage_type")
        ELSE ReadAll(f, order, 1, [Done("get_all", path, "none") EXCEPT !.ret = "list"])

GetAllAsDict(path) ==
    /\ \E order \in Orders(Glob(fs, resolve_path(path).path)) :
          last' = [get_all_as_dict(fs, path, order)
                     EXCEPT !.target = TargetOf(fs, path)]
    /\ UNCHANGED <<call, fs, pc, result, entity, saved, outcome>>

\* --- get_user_workflow_path(workflow_id, user_id=None) ---

\* Path(USER_DATA_PATH).glob("*/<workflow root>/<workflow_id>"): the users
\* whose workflow root holds workflow_id (an id without separators or
\* wildcards)
WorkflowCandidates(f, workflow_id) ==
    {c \in Children(f, USER_DATA_PATH.parts) :
        Exists(f, USER_DATA_PATH.parts \o <<c>> \o Split(USER_WORKFLOW_ROOT)
                    \o Split(workflow_id))}

\* given: whether a user_id is passed; first: the user of the candidate the
\* glob lists first.  Without a user_id and without a candidate user_id
\* stays None, and Path(USER_DATA_PATH, None, ...) raises a TypeError.
get_user_workflow_path(f, workflow_id, given, user_id, first) ==
    IF given
    THEN [err |-> "none", consulted |-> {},
          path |-> PathJoin(get_user_workflow_root(user_id), workflow_id)]
    ELSE IF WorkflowCandidates(f, workflow_id) = {}
    THEN [err |-> "TypeError", consulted |-> {USER_DATA_PATH.parts},
          path |-> PathOf(<<>>)]
    ELSE [err |-> "none",
          consulted |-> {USER_DATA_PATH.parts} \cup
                        {Append(USER_DATA_PATH.parts, c) :
                            c \in Children(f, USER_DATA_PATH.parts)},
          path |-> PathJoin(get_user_workflow_root(first), workflow_id)]

GetUserWorkflowPath(workflow_id, given, user_id) ==
    /\ \E first \in (IF given \/ WorkflowCandidates(fs, workflow_id) = {}
                     THEN {<<>>} ELSE WorkflowCandidates(fs, workflow_id)) :
          LET r == get_user_workflow_path(fs, workflow_id, given, user_id, first)
          IN  last' = [Done("get_user_workflow_path", r.path, r.err)
                         EXCEPT !.arg = workflow_id, !.touched = r.consulted,
                                !.kw = IF given THEN "user_id" ELSE "None"]
    /\ UNCHANGED <<call, fs, pc, result, entity, saved, outcome>>

\* a getter of a per-user path
GetUserPath(kind, user_id) ==
    /\ last' = [Done("get_user_path",
                     CASE kind = "tmp" -> get_user_tmp(user_id)
                       [] kind = "workflow" -> get_user_workflow_root(user_id)
                       [] kind = "datasource" -> get_user_datasource_root(user_id)
                       [] kind = "venv" -> get_user_component_venv(user_id)
                       [] OTHER -> get_user_environment_path(user_id),
                     "none") EXCEPT !.kw = kind]
    /\ UNCHANGED <<call, fs, pc, result, entity, saved, outcome>>

(***************************************************************************)
(* The DataSource model family                                             *)
(***************************************************************************)
(* Python values: Str, Null and Map as above, a member of DataSourceType   *)
(* (Enum) and an instance of a pydantic model (Model).  Absent marks a key *)
(* a mapping does not have.                                                *)
(***************************************************************************)
Enum(name)    == [t |-> "enum", name |-> name]
Model(cls, m) == [t |-> "model", cls |-> cls, m |-> m]
Absent        == [t |-> "absent"]

\* DataSourceType: member name -> value
DataSourceType == [n \in {"LOCAL_FILE", "POSTGRESQL"} |->
                      IF n = "LOCAL_FILE" THEN "LocalFile" ELSE "Postgresql"]

\* DataSourceType.list()
DataSourceTypeList == {DataSourceType[n] : n \in DOMAIN DataSourceType}

\* the strings given as a type, and str.upper() on them
TypeStrings == {"LOCAL_FILE", "local_file", "LocalFile", "POSTGRESQL",
                "Postgresql", "FTP"}

Upper(x) ==
    CASE x = "local_file" -> "LOCAL_FILE"
      [] x = "LocalFile"  -> "LOCALFILE"
      [] x = "Postgresql" -> "POSTGRESQL"
      [] OTHER            -> x

\* cls.__subclasses__() by name
Subclasses(cls) == IF cls = "DataSource" THEN {"LocalFile", "Postgresql"} ELSE {}

\* --- the attribute schemas (lunarbase.modeling.datasources.attributes) ---
LocalFileConnectionAttributes  == "LocalFileConnectionAttributes"
PostgresqlConnectionAttributes == "PostgresqlConnectionAttributes"

\* the required fields of a schema
RequiredFields(schema) ==
    IF schema = LocalFileConnectionAttributes THEN {"file_name"}
    ELSE {"host", "credentials", "database"}

\* the file type derived from a file name
FileTypeOf(file_name) == IF file_name = "a.txt" THEN "txt" ELSE "csv"

\* schema.model_validate(mapping): the required fields must be strings, keys
\* the schema does not have are ignored, file_type is derived
AttributesValidate(schema, m) ==
    IF \A k \in RequiredFields(schema) : k \in DOMAIN m /\ m[k].t = "str"
    THEN [ok |-> TRUE,
          val |-> Model(schema,
                    IF schema = LocalFileConnectionAttributes
                    THEN [k \in {"file_name", "file_type"} |->
                            IF k = "file_name" THEN m["file_name"]
                            ELSE Str(FileTypeOf(m["file_name"].v))]
                    ELSE [k \in RequiredFields(schema) |-> m[k]])]
    ELSE [ok |-> FALSE, val |-> Null]

\* DataSourceType.expected_connection_attributes(): the schema of a member
expected_connection_attributes(name) ==
    IF name = "LOCAL_FILE" THEN LocalFileConnectionAttributes
    ELSE IF name = "POSTGRESQL" THEN PostgresqlConnectionAttributes
    ELSE "None"

\* --- the fields of LocalFile and Postgresql ---
Classes == {"LocalFile", "Postgresql"}

DefaultName(cls) ==
    IF cls = "LocalFile" THEN "Local file datasource" ELSE "Postgresql datasource"

DefaultDescription(cls) ==
    IF cls = "LocalFile" THEN "Local file datasource - ..."
    ELSE "Postgresql or SQLite datasource - ..."

DefaultType(cls) == IF cls = "LocalFile" THEN "LOCAL_FILE" ELSE "POSTGRESQL"

NoFrozenFields(cls) == {}

\* the fields declared frozen=True
FrozenFields(cls) == {"type"}

ValidateAssignmentOff == FALSE

\* Config.validate_assignment
ValidateAssignment == TRUE

\* the key of a field in a mapping: its alias (to_camel) or, with
\* populate_by_name, its name
AliasOf(field) ==
    IF field = "connection_attributes" THEN "connectionAttributes" ELSE field

FieldNames == {"id", "name", "description", "type", "connection_attributes"}

FieldValue(obj, field) ==
    IF AliasOf(field) \in DOMAIN obj THEN obj[AliasOf(field)]
    ELSE IF field \in DOMAIN obj THEN obj[field]
    ELSE Absent

\* extra = "forbid": the keys no field takes
ExtraKeys(obj) ==
    {k \in DOMAIN obj :
        \/ k \notin FieldNames \cup {AliasOf(f) : f \in FieldNames}
        \/ \E f \in FieldNames : k = f /\ AliasOf(f) # f /\ AliasOf(f) \in DOMAIN obj}

Fail == [ok |-> FALSE, val |-> Null]
Ok(v) == [ok |-> TRUE, val |-> v]

\* a str field
StrField(v, default) ==
    IF v = Absent THEN Ok(Str(default))
    ELSE IF v.t = "str" THEN Ok(v) ELSE Fail

\* the annotation of type: Union[str, DataSourceType] in LocalFile, where a
\* string stays a string; DataSourceType in Postgresql, where a string must
\* be the value of a member
TypeAnnotation(cls, v) ==
    IF v.t = "enum" THEN Ok(v)
    ELSE IF v.t # "str" THEN Fail
    ELSE IF cls = "LocalFile" THEN Ok(v)
    ELSE IF \E n \in DOMAIN DataSourceType : DataSourceType[n] = v.v
    THEN Ok(Enum(CHOOSE n \in DOMAIN DataSourceType : DataSourceType[n] = v.v))
    ELSE Fail

\* validate_type: a string is looked up by its upper-cased name; the value
\* of the member must be a subclass name, or any listed value for a class
\* without subclasses
validate_type(cls, v) ==
    LET member == IF v.t = "str" THEN Enum(Upper(v.v)) ELSE v
        subcls == IF Subclasses(cls) = {} THEN DataSourceTypeList
                  ELSE Subclasses(cls)
    IN  IF member.name \notin DOMAIN DataSourceType THEN Fail
        ELSE IF DataSourceType[member.name] \notin subcls THEN Fail
        ELSE Ok(member)

TypeField(cls, v) ==
    IF v = Absent THEN Ok(Enum(DefaultType(cls)))
    ELSE IF ~TypeAnnotation(cls, v).ok THEN Fail
    ELSE validate_type(cls, TypeAnnotation(cls, v).val)

\* the schema named in the annotation of connection_attributes
AnnotatedSchema(cls) ==
    IF cls = "LocalFile" THEN LocalFileConnectionAttributes
    ELSE PostgresqlConnectionAttributes

\* the annotation of connection_attributes, Union[Dict, <schema of the
\* class>]: a dict, or an instance of that schema
AttributesAnnotation(cls, v) ==
    \/ v.t = "map"
    \/ v.t = "model" /\ v.cls = AnnotatedSchema(cls)

validate_with_own_schema(v, type) ==
    IF v.t = "model" THEN AttributesValidate(v.cls, v.m)
    ELSE IF v.t # "map" \/ ~type.ok THEN Fail
    ELSE AttributesValidate(expected_connection_attributes(type.val.name), v.m)

\* validate_connection_attributes(value, info): a model is dumped to a dict;
\* info.data holds `type` only when it was valid; the dict is validated
\* with the schema `type` expects
validate_connection_attributes(v, type) ==
    IF v.t \notin {"map", "model"} THEN Fail
    ELSE IF ~type.ok THEN Fail
    ELSE AttributesValidate(expected_connection_attributes(type.val.name), v.m)

AttributesField(cls, v, type) ==
    IF v = Absent THEN Fail
    ELSE IF ~AttributesAnnotation(cls, v) THEN Fail
    ELSE validate_connection_attributes(v, type)

NoEntity == [cls |-> "none"]
NoOutcome == [op |-> "none", route |-> "-", type |-> Absent, attrs |-> Absent,
              field |-> "-", err |-> "none", before |-> NoEntity,
              result |-> NoEntity, doc |-> Null]

\* cls.model_validate(obj); fresh is the uuid4 the id factory would draw
model_validate(cls, obj, fresh) ==
    LET id   == StrField(FieldValue(obj, "id"), fresh)
        name == StrField(FieldValue(obj, "name"), DefaultName(cls))
        desc == StrField(FieldValue(obj, "description"), DefaultDescription(cls))
        type == TypeField(cls, FieldValue(obj, "type"))
        attrs == AttributesField(cls, FieldValue(obj, "connection_attributes"), type)
    IN  IF ExtraKeys(obj) # {} \/ ~id.ok \/ ~name.ok \/ ~desc.ok \/ ~type.ok
           \/ ~attrs.ok
        THEN [err |-> "ValidationError", entity |-> NoEntity]
        ELSE [err |-> "none",
              entity |-> [cls |-> cls, id |-> id.val, name |-> name.val,
                          description |-> desc.val, type |-> type.val,
                          connection_attributes |-> attrs.val]]

\* the first half of polymorphic_validation: obj_dict["type"] to the value
\* of its member; KeyError and AttributeError become a ValueError
BaseClassOf(obj) ==
    LET v == IF "type" \in DOMAIN obj THEN obj["type"] ELSE Absent
    IN  IF v.t = "str"
        THEN (IF Upper(v.v) \in DOMAIN DataSourceType
              THEN Ok(DataSourceType[Upper(v.v)]) ELSE Fail)
        ELSE IF v.t = "enum" THEN Ok(DataSourceType[v.name])
        ELSE Fail

polymorphic_without_type_check(obj, fresh) ==
    model_validate(IF BaseClassOf(obj).ok THEN BaseClassOf(obj).val ELSE "LocalFile",
                   obj, fresh)

\* DataSource.polymorphic_validation(obj_dict)
polymorphic_validation(obj, fresh) ==
    IF ~BaseClassOf(obj).ok
    THEN [err |-> "ValueError", entity |-> NoEntity]
    ELSE IF BaseClassOf(obj).val \notin Subclasses("DataSource")
    THEN [err |-> "ValueError", entity |-> NoEntity]
    ELSE model_validate(BaseClassOf(obj).val, obj, fresh)

\* serialize_type
serialize_type(v) == IF v.t = "enum" THEN Str(v.name) ELSE v

\* model_dump(by_alias=True): the wire shape of an entity
Serialize(e) ==
    Map([k \in {"id", "name", "description", "type", "connectionAttributes"} |->
            CASE k = "id" -> e.id
              [] k = "name" -> e.name
              [] k = "description" -> e.description
              [] k = "type" -> serialize_type(e.type)
              [] OTHER -> Map(e.connection_attributes.m)])

\* entity.<field> = v under validate_assignment: a frozen field refuses, the
\* others are validated against the rest of the object
assign(e, field, v) ==
    LET checked ==
            IF field = "connection_attributes"
            THEN AttributesField(e.cls, v, Ok(e.type))
            ELSE IF field = "type" THEN TypeField(e.cls, v)
            ELSE StrField(v, "")
    IN  IF field \in FrozenFields(e.cls)
        THEN [err |-> "ValidationError", entity |-> e]
        ELSE IF ~ValidateAssignment
        THEN [err |-> "none", entity |-> [e EXCEPT ![field] = v]]
        ELSE IF v = Absent \/ ~checked.ok
        THEN [err |-> "ValidationError", entity |-> e]
        ELSE [err |-> "none", entity |-> [e EXCEPT ![field] = checked.val]]

\* --- operations on the entity held by the caller: the object the last
\* construction returned, none when it raised ---
Stored(op, route, obj, r) ==
    [NoOutcome EXCEPT !.op = op, !.route = route,
                      !.type = FieldValue(obj, "type"),
                      !.attrs = FieldValue(obj, "connection_attributes"),
                      !.err = r.err, !.before = entity, !.result = r.entity]

\* DataSource.polymorphic_validation(obj)
Validate(obj, fresh) ==
    /\ LET r == polymorphic_validation(obj, fresh)
       IN  /\ outcome' = [Stored("validate", "polymorphic", obj, r)
                            EXCEPT !.before = NoEntity]
           /\ entity' = r.entity
    /\ UNCHANGED <<call, fs, pc, result, last, saved>>

\* LocalFile(**obj), Postgresql(**obj)
Construct(cls, obj, fresh) ==
    /\ LET r == model_validate(cls, obj, fresh)
       IN  /\ outcome' = [Stored("construct", cls, obj, r)
                            EXCEPT !.before = NoEntity]
           /\ entity' = r.entity
    /\ UNCHANGED <<call, fs, pc, result, last, saved>>

\* entity.<field> = v
Assign(field, v) ==
    /\ entity # NoEntity
    /\ LET r == assign(entity, field, v)
       IN  /\ outcome' = [NoOutcome EXCEPT
                            !.op = "assign", !.field = field,
                            !.type = IF field = "type" THEN v ELSE Absent,
                            !.attrs = IF field = "connection_attributes"
                                      THEN v ELSE Absent,
                            !.err = r.err, !.before = entity,
                            !.result = r.entity]
           /\ entity' = r.entity
    /\ UNCHANGED <<call, fs, pc, result, last, saved>>

\* the fields of the entity with another type, validated again: its
\* attributes as they are or dumped, by the entity's class or polymorphically
Revalidate(type, dumped, route) ==
    /\ entity # NoEntity
    /\ LET obj == [k \in FieldNames |->
                    CASE k = "type" -> type
                      [] k = "connection_attributes" ->
                            IF dumped THEN Map(entity.connection_attributes.m)
                            ELSE entity.connection_attributes
                      [] OTHER -> entity[k]]
           r == IF route = "polymorphic"
                THEN polymorphic_validation(obj, "g1")
                ELSE model_validate(entity.cls, obj, "g1")
       IN  /\ outcome' = Stored("revalidate", route, obj, r)
           /\ entity' = IF r.err = "none" THEN r.entity ELSE entity
    /\ UNCHANGED <<call, fs, pc, result, last, saved>>

\* the entity is created from a request body
CreateDatasource(obj, fresh) ==
    /\ LET r == polymorphic_validation(obj, fresh)
       IN  /\ entity' = IF r.err = "none" THEN r.entity ELSE entity
           /\ outcome' = [NoOutcome EXCEPT !.op = "create", !.err = r.err]
    /\ UNCHANGED <<call, fs, pc, result, last, saved>>

\* the entity is written as JSON under its id
SaveDatasource(user_id) ==
    /\ entity # NoEntity
    /\ LET r == save_to_storage_as_json(
                    fs, get_datasource_path(user_id, <<entity.id.v>>),
                    Serialize(entity))
       IN  /\ fs' = r.fs
           /\ last' = r.out
           /\ saved' = IF r.out.err = "none" THEN entity ELSE saved
           /\ outcome' = [NoOutcome EXCEPT !.op = "save", !.err = r.out.err]
    /\ UNCHANGED <<call, pc, result, entity>>

\* the document of the saved entity is read and validated
LoadDatasource(user_id) ==
    /\ saved # NoEntity
    /\ LET got == get_from_storage_as_dict(
                      fs, get_datasource_path(user_id, <<saved.id.v>>))
           r == IF got.err = "none" /\ got.vals[1].t = "map"
                THEN polymorphic_validation(got.vals[1].m, "g1")
                ELSE [err |-> got.err, entity |-> NoEntity]
       IN  /\ last' = got
           /\ outcome' = [NoOutcome EXCEPT
                            !.op = "load", !.err = r.err, !.before = saved,
                            !.result = r.entity,
                            !.doc = IF got.err = "none" THEN got.vals[1] ELSE Null]
           /\ entity' = IF r.err = "none" THEN r.entity ELSE entity
    /\ UNCHANGED <<call, fs, pc, result, saved>>

(***************************************************************************)
(* Specifications                                                          *)
(***************************************************************************)
Quiet ==
    /\ call = NoCall
    /\ pc = [p \in Procs |-> Idle]
    /\ result = [p \in Procs |-> NoResult]
    /\ last = NoOp
    /\ entity = NoEntity
    /\ saved = NoEntity
    /\ outcome = NoOutcome

\* --- path resolution ---
InitPath ==
    /\ call \in {[NoCall EXCEPT !.user_id = u, !.id = i] : u \in Strings, i \in Strings}
    /\ fs = BaseFs
    /\ pc = [p \in Procs |-> Idle]
    /\ result = [p \in Procs |-> NoResult]
    /\ last = NoOp
    /\ entity = NoEntity
    /\ saved = NoEntity
    /\ outcome = NoOutcome

NextPath ==
    \/ GetDatasourcePath(call.user_id, call.id)
    \/ GetLlmPath(call.user_id, call.id)

SpecPath == InitPath /\ [][NextPath]_vars

\* --- the user scaffold ---
\* the paths of a user's scaffold entries, as delete is given them
ScaffoldPaths(user_id) ==
    {[anchor |-> "/", parts |-> StepsOf[user_id][i].node] : i \in 1..NumSteps}
    \cup {UserDir(user_id)}

\* delete(path) of a scaffold entry while no scaffold call is running
RemoveEntry(path) ==
    /\ AllIdle
    /\ Exists(fs, NodeOf(path))
    /\ fs' = delete(fs, path).fs
    /\ UNCHANGED <<call, pc, result, last, entity, saved, outcome>>

InitScaffold == Quiet /\ fs = BaseFs

NextScaffold ==
    \/ \E p \in Procs, user_id \in ScaffoldUsers : CallInitUserProfile(p, user_id)
    \/ \E p \in Procs : InitUserProfileStep(p)
    \/ \E p \in Procs : InitUserProfileFails(p)
    \/ \E user_id \in ScaffoldUsers : \E path \in ScaffoldPaths(user_id) : RemoveEntry(path)

SpecScaffold == InitScaffold /\ [][NextScaffold]_vars

\* --- the document store ---
U == <<"u">>

DocA == Map([k \in {"id"} |-> Str("a")])
DocB == Map([k \in {"id"} |-> Str("b")])
Docs == {DocA, DocB}

OutsideFile == << <<"out", ".json">> >>

\* a provisioned user and one file outside the base root
StoreFs == With(RunFrom(BaseFs, U, 1), OutsideFile, FileNode(Dumps(DocB)))

\* path arguments: what the getters return, and what a caller can craft
StorePaths ==
    { get_datasource_path(U, <<"a">>),
      PathOf(<<"users", "/", "u", "/", "datasources", "/", "a", ".json">>),
      get_user_datasource_root(U),
      PathOf(<<"users", "/", "u", "/", "environment", "/", "a", ".json">>),
      PathOf(<<"..", "/", "out", ".json">>),
      PathOf(<<"/", "out", ".json">>),
      PathOf(<<"/", "BASE", "/", "..", "/", "out", ".json">>) }

StoreGlobs ==
    { PathJoin(get_user_datasource_root(U), <<"*">>),
      PathJoin(get_user_datasource_root(U), <<"*", ".json">>),
      PathOf(<<"..", "/", "*">>) }

Uploads ==
    { [filename |-> <<"f.txt">>, content |-> <<"bytes">>],
      [filename |-> <<"..", "/", "..", "/", "..", "/", "..", "/", "out", ".json">>,
       content |-> <<"bytes">>] }

FileDirs == { get_user_file_root(U), PathOf(<<"..">>) }

CopySources == { PathOf(<<"/", "out", ".json">>) }

InitStore == Quiet /\ fs = StoreFs

NextStore ==
    \/ \E path \in StorePaths, data \in Docs : SaveToStorageAsJson(path, data)
    \/ \E path \in StorePaths : GetFromStorageAsDict(path)
    \/ \E path \in StoreGlobs : GetAllAsDict(path)
    \/ \E path \in StorePaths, kw \in {"absent", "True", "False"} : Delete(path, kw)
    \/ \E path \in FileDirs, file \in Uploads : SaveFileToStorage(path, file)
    \/ \E from \in CopySources, to \in FileDirs : SaveFileToStorageFromPath(from, to)

SpecStore == InitStore /\ [][NextStore]_vars

\* --- the DataSource family ---
LocalFileRecord ==
    Model(LocalFileConnectionAttributes,
          [k \in {"file_name", "file_type"} |->
              IF k = "file_name" THEN Str("a.txt") ELSE Str("txt")])

PostgresqlRecord ==
    Model(PostgresqlConnectionAttributes,
          [k \in {"host", "credentials", "database"} |-> Str(k)])

OtherFile == Map([k \in {"file_name"} |-> Str("b.csv")])

\* what is given as `type`
TypeValues ==
    {Absent, Null} \cup {Str(x) : x \in TypeStrings}
                   \cup {Enum(n) : n \in DOMAIN DataSourceType}

\* what is given as `connection_attributes`
AttributeValues ==
    { Absent, Null, LocalFileRecord, PostgresqlRecord,
      Map(LocalFileRecord.m), Map(PostgresqlRecord.m), OtherFile,
      Map([k \in {"host"} |-> Str("host")]),
      Map([k \in {"file_name", "host", "credentials", "database"} |->
              IF k = "file_name" THEN Str("a.txt") ELSE Str(k)]) }

\* a request body: named is whether id and name are given, and the
\* attributes go under their alias then
Payload(type, attrs, named) ==
    LET key == IF named THEN "connectionAttributes" ELSE "connection_attributes"
    IN  [k \in (IF type = Absent THEN {} ELSE {"type"})
               \cup (IF attrs = Absent THEN {} ELSE {key})
               \cup (IF named THEN {"id", "name"} ELSE {}) |->
            CASE k = "type" -> type
              [] k = key    -> attrs
              [] k = "id"   -> Str("i1")
              [] OTHER      -> Str("n")]

Payloads ==
    {Payload(t, a, FALSE) : t \in TypeValues, a \in AttributeValues}
    \cup {Payload(t, a, TRUE) :
            t \in {Str("LOCAL_FILE"), Str("Postgresql")},
            a \in {Map(LocalFileRecord.m), Map(PostgresqlRecord.m)}}
    \cup {[k \in {"type", "connectionAttributes", "extra"} |->
              CASE k = "type" -> Str("LOCAL_FILE")
                [] k = "extra" -> Null
                [] OTHER -> OtherFile]}

Uuids == {"g1"}

AssignedValues(field) ==
    IF field = "type" THEN TypeValues \ {Absent}
    ELSE IF field = "connection_attributes" THEN AttributeValues \ {Absent}
    ELSE {Str("m"), Null}

InitDS == Quiet /\ fs = BaseFs

NextDS ==
    \/ \E obj \in Payloads, fresh \in Uuids : Validate(obj, fresh)
    \/ \E cls \in Classes, obj \in Payloads, fresh \in Uuids :
          Construct(cls, obj, fresh)
    \/ \E field \in {"name", "type", "connection_attributes"} :
          \E v \in AssignedValues(field) : Assign(field, v)
    \/ \E type \in TypeValues \ {Absent}, dumped \in BOOLEAN,
          route \in {"polymorphic", "class"} : Revalidate(type, dumped, route)

SpecDS == InitDS /\ [][NextDS]_vars

\* --- a DataSource saved and loaded ---
InitRoundTrip == Quiet /\ fs = RunFrom(BaseFs, U, 1)

NextRoundTrip ==
    \/ \E obj \in Payloads, fresh \in Uuids : CreateDatasource(obj, fresh)
    \/ SaveDatasource(U)
    \/ LoadDatasource(U)

SpecRoundTrip == InitRoundTrip /\ [][NextRoundTrip]_vars

\* --- concurrent first use: callers of init_user_profile for a user without
\* an area, interleaved system call by system call ---
InitConcurrent == Quiet /\ fs = BaseFs

NextConcurrent ==
    \/ \E p \in Procs, user_id \in ScaffoldUsers : CallInitUserProfile(p, user_id)
    \/ \E p \in Procs : InitUserProfileSysCall(p)

SpecConcurrent == InitConcurrent /\ [][NextConcurrent]_vars

\* --- concurrent writers of one document path ---
DocLong == Map([k \in {"id", "name"} |-> IF k = "id" THEN Str("a") ELSE Str("n")])

WriterPath == get_datasource_path(U, <<"a">>)

OtherDoc == NodeOf(get_datasource_path(U, <<"b">>))

WritersFs == With(StoreFs, OtherDoc, FileNode(Dumps(DocB)))

InitWriters == Quiet /\ fs = WritersFs

NextWriters ==
    \/ \E p \in Procs, data \in {DocA, DocB, DocLong} : SaveOpens(p, WriterPath, data)
    \/ \E p \in Procs : SaveWrites(p)

SpecWriters == InitWriters /\ [][NextWriters]_vars

\* --- reading and listing a scope: the datasource directory of a user
\* holding any of: a document, a document with an upper-case suffix, a file
\* without the suffix, a directory with the suffix, a file of bytes that
\* are not JSON ---
ScopeDir == NodeOf(get_user_datasource_root(U))

Corrupt == <<"{">>

ScopeEntries ==
    { [name |-> <<"a", ".json">>, node |-> FileNode(Dumps(DocA))],
      [name |-> <<"b", ".JSON">>, node |-> FileNode(Dumps(DocB))],
      [name |-> <<"notes">>,      node |-> FileNode(<<"bytes">>)],
      [name |-> <<"d", ".json">>, node |-> DirNode],
      [name |-> <<"x", ".json">>, node |-> FileNode(Corrupt)] }

ScopeFs(entries) ==
    LET base == RunFrom(BaseFs, U, 1)
        new  == {Append(ScopeDir, e.name) : e \in entries}
    IN  [n \in (DOMAIN base) \cup new |->
            IF n \in DOMAIN base THEN base[n]
            ELSE (CHOOSE e \in entries : Append(ScopeDir, e.name) = n).node]

ScopeGlobs ==
    { PathJoin(get_user_datasource_root(U), <<"*">>),
      PathJoin(get_user_datasource_root(U), <<"*", ".json">>),
      PathJoin(get_user_datasource_root(U), <<"x", "*">>),
      PathJoin(get_user_llm_root(U), <<"*">>),
      PathJoin(get_user_datasource_root(U), <<"a", ".json">>),
      PathOf(<<"users", "/", "v", "/", "datasources", "/", "*">>) }

ScopePaths ==
    {PathJoin(get_user_datasource_root(U), e.name) : e \in ScopeEntries}
    \cup {get_datasource_path(U, <<"m">>)}

InitList ==
    /\ Quiet
    /\ fs \in {ScopeFs(entries) : entries \in SUBSET ScopeEntries}

NextList ==
    \/ \E path \in ScopeGlobs : GetAllAsDict(path)
    \/ \E path \in ScopePaths : GetFromStorageAsDict(path)

SpecList == InitList /\ [][NextList]_vars

\* --- path getters called on file systems that hold any of the workflows
\* w1 and w2 of the users u and v ---
WorkflowIds == {<<"w1">>, <<"w2">>}

WorkflowDirs ==
    {NodeOf(PathJoin(get_user_workflow_root(u), w)) :
        u \in {<<"u">>, <<"v">>}, w \in WorkflowIds}

ResolveFs(dirs) ==
    [n \in (DOMAIN BaseFs) \cup
           {SubSeq(d, 1, k) : d \in dirs, k \in 1..(Len(USER_DATA_PATH.parts) + 3)}
       |-> DirNode]

InitResolve ==
    /\ Quiet
    /\ fs \in {ResolveFs(dirs) : dirs \in SUBSET WorkflowDirs}

NextResolve ==
    \/ \E w \in WorkflowIds, given \in BOOLEAN, user_id \in {<<"u">>, <<"x">>} :
          GetUserWorkflowPath(w, given, user_id)
    \/ \E kind \in {"tmp", "workflow", "datasource", "venv", "environment"},
          user_id \in {<<"u">>, <<"x">>} : GetUserPath(kind, user_id)

SpecResolve == InitResolve /\ [][NextResolve]_vars

(***************************************************************************)
(* Claims                                                                  *)
(***************************************************************************)

\* C1: path resolution is injective: whatever triple (user_id, kind, id) was
\* resolved, no other triple over arbitrary strings (path separators, "..",
\* a ".json" suffix included) resolves to the same path.
C1_Injective ==
    call.op = "get_path" =>
        \A kind \in Kinds, u \in Strings, i \in Strings :
            <<u, kind, i>> # <<call.user_id, call.kind, call.id>>
                => ResolvePath(kind, u, i) # call.path

\* C2: every storage operation whose path leads outside the base root ends
\* with an error and touches nothing, so that no node outside the base root
\* is ever created, read, written or removed.
C2_StaysInBase ==
    last.op # "none" =>
        /\ \A n \in last.touched : InBase(n)
        /\ ~InBase(last.target) => (last.err # "none" /\ last.touched = {})

\* C3 as claimed: delete of a missing path raises not-found with
\* missing_ok=False, returns False without an error with missing_ok=True;
\* delete of an existing path returns True.
C3_DeleteMissingOk ==
    (last.op = "delete" /\ last.err # "ValueError:invalid_path") =>
        /\ (~last.existed /\ last.kw = "False") => last.err = "FileNotFoundError"
        /\ (~last.existed /\ last.kw = "True")
                => (last.err = "none" /\ last.ret = "False")
        /\ last.existed => (last.err = "none" /\ last.ret = "True")

\* C3 as amended: delete takes the path alone; a call that passes missing_ok
\* is rejected with a TypeError and changes nothing.  delete(path) of a path
\* the base-root check accepts raises FileNotFoundError when nothing exists
\* there (NotADirectoryError when a component of the path is a file) and
\* removes nothing; when the path exists it is removed and True is returned.
C3_Delete ==
    last.op = "delete" =>
        /\ last.kw # "absent" => (last.err = "TypeError" /\ last.touched = {})
        /\ (last.kw = "absent" /\ last.err # "ValueError:invalid_path") =>
              /\ ~last.existed =>
                    /\ last.err \in {"FileNotFoundError", "NotADirectoryError"}
                    /\ last.touched = {}
              /\ last.existed =>
                    /\ last.err = "none" /\ last.ret = "True"
                    /\ last.target \in last.touched
                    /\ (last.target # <<>> => ~Exists(fs, last.target))

\* delete(path) met a missing path and raised FileNotFoundError
C3_Witness ==
    /\ last.op = "delete" /\ last.kw = "absent"
    /\ ~last.existed /\ last.err = "FileNotFoundError"

\* C9: init_user_profile is idempotent and resumable: whatever part of the
\* scaffold it finds, it never fails on an entry that exists, and when it
\* completes the user's area is exactly what one call on an empty area leaves.
C9_IdempotentResume ==
    \A p \in Procs :
        /\ result[p].status \in {"none", "ok", "OSError"}
        /\ result[p].status = "ok" => result[p].area = FullArea[result[p].user_id]

\* a call that found a part of the scaffold has completed
C9_Witness ==
    \E p \in Procs : result[p].status = "ok" /\ result[p].found = "partial"

\* the directories of the user scaffold other than the venv root, and its
\* marker file
ScaffoldDirs(user_id) ==
    { get_user_workflow_root(user_id), get_user_datasource_root(user_id),
      get_user_llm_root(user_id), get_user_file_root(user_id),
      get_user_index_root(user_id), get_user_component_index(user_id),
      get_user_workflow_index(user_id), get_user_custom_root(user_id),
      get_user_tmp(user_id) }

\* C10 as claimed: after a successful init_user_profile the workflow,
\* datasource, llm, file, component index, workflow index, venv, custom and
\* tmp directories exist, and the environment marker file.
C10_ScaffoldWithVenv ==
    \A p \in Procs :
        result[p].status = "ok" =>
            /\ \A d \in ScaffoldDirs(result[p].user_id) \cup
                        {get_user_component_venv(result[p].user_id)} :
                    IsDir(result[p].area, NodeOf(d))
            /\ IsFile(result[p].area,
                      NodeOf(get_user_environment_path(result[p].user_id)))

\* C10 as amended: after a successful init_user_profile the workflow,
\* datasource, llm, file, index, component index, workflow index, custom and
\* tmp directories exist, and the environment marker file; the venv root is
\* not part of the scaffold.
C10_Scaffold ==
    \A p \in Procs :
        result[p].status = "ok" =>
            /\ \A d \in ScaffoldDirs(result[p].user_id) :
                    IsDir(result[p].area, NodeOf(d))
            /\ IsFile(result[p].area,
                      NodeOf(get_user_environment_path(result[p].user_id)))

\* a call for a user without any area has completed
C10_Witness ==
    \E p \in Procs : result[p].status = "ok" /\ result[p].found = "empty"

\* C4: a valid DataSource that is serialized, saved, read back and validated
\* again comes back without an error, as the document that was written and
\* as an entity equal to the saved one (class, id, name, description, type
\* and connection attributes).
C4_RoundTrip ==
    outcome.op = "load" =>
        /\ outcome.err = "none"
        /\ outcome.doc = Serialize(outcome.before)
        /\ outcome.result = outcome.before

\* whether a value given as `type` names a registered discriminator after
\* case normalization
TypeRegistered(v) ==
    \/ v.t = "enum" /\ v.name \in DOMAIN DataSourceType
    \/ v.t = "str" /\ Upper(v.v) \in {"LOCAL_FILE", "POSTGRESQL"}

\* C5: polymorphic validation of a payload whose type is absent or not a
\* registered discriminator fails with the unknown-type error (a plain
\* ValueError); a payload with a registered type fails, if it fails, with
\* the schema error (ValidationError), so the two are told apart.
C5_UnknownType ==
    outcome.op = "validate" =>
        /\ ~TypeRegistered(outcome.type) => outcome.err = "ValueError"
        /\ TypeRegistered(outcome.type) => outcome.err \in {"none", "ValidationError"}

C5_Witness ==
    /\ outcome.op = "validate"
    /\ outcome.type = Str("FTP")
    /\ outcome.attrs = Map(LocalFileRecord.m)
    /\ outcome.err = "ValueError"

IsPostgresql(v) ==
    \/ v = Enum("POSTGRESQL")
    \/ v.t = "str" /\ Upper(v.v) = "POSTGRESQL"

\* C7: assigning to `type` of a validated entity is refused and leaves the
\* entity as it was; validating again the fields of an entity of type
\* LOCAL_FILE with the type changed to POSTGRESQL and the attributes
\* unchanged fails.
C7_Discriminator ==
    /\ (outcome.op = "assign" /\ outcome.field = "type") =>
            outcome.err # "none" /\ entity = outcome.before
    /\ (/\ outcome.op = "revalidate"
        /\ outcome.before.type = Enum("LOCAL_FILE")
        /\ IsPostgresql(outcome.type)) => outcome.err # "none"

C7_Witness ==
    /\ outcome.op = "assign"
    /\ outcome.field = "type"
    /\ outcome.type = Enum("POSTGRESQL")
    /\ outcome.err = "ValidationError"
    /\ entity.cls = "LocalFile"
    /\ entity.type = Enum("LOCAL_FILE")

\* C8: whatever was constructed and assigned, the entity's type is a member
\* of the registry and its connection attributes are a validated record of
\* the schema that type expects.
C8_EntityInvariant ==
    entity # NoEntity =>
        /\ entity.type.t = "enum"
        /\ entity.type.name \in DOMAIN DataSourceType
        /\ entity.connection_attributes.t = "model"
        /\ entity.connection_attributes.cls =
               expected_connection_attributes(entity.type.name)
        /\ AttributesValidate(entity.connection_attributes.cls,
                              entity.connection_attributes.m)
               = Ok(entity.connection_attributes)

C8_Witness ==
    /\ outcome.op = "assign"
    /\ outcome.field = "connection_attributes"
    /\ outcome.attrs = OtherFile
    /\ outcome.err = "none"
    /\ entity.connection_attributes.m["file_name"] = Str("b.csv")

\* C11: when calls of init_user_profile for a user without an area run
\* concurrently, interleaved system call by system call, no call ends with
\* an error, every call that completes leaves the complete scaffold, and
\* once all have finished the user's area is the complete scaffold.
C11_ConcurrentScaffold ==
    /\ \A p \in Procs :
          /\ result[p].status \in {"none", "ok"}
          /\ result[p].status = "ok" =>
                result[p].area = FullArea[result[p].user_id]
    /\ (AllIdle /\ \E p \in Procs : result[p].status = "ok") =>
          \A u \in ScaffoldUsers : UserArea(fs, u) = FullArea[u]

\* two calls that both found no area have both completed
C11_Witness ==
    /\ AllIdle
    /\ \A p \in Procs : result[p].status = "ok" /\ result[p].found = "empty"

\* C12: of writers that store documents at the same path concurrently none
\* is rejected; once all have completed, the file holds exactly the bytes
\* of the writer that wrote last, which parse; every other node of the
\* file system is as it was.
C12_LastWriteWins ==
    /\ \A p \in Procs : result[p].status \in {"none", "ok"}
    /\ (AllIdle /\ last.op = "write") =>
          /\ fs[NodeOf(WriterPath)].data = last.arg
          /\ Loads(fs[NodeOf(WriterPath)].data).err = "none"
    /\ \A n \in (DOMAIN WritersFs) \ {NodeOf(WriterPath)} : fs[n] = WritersFs[n]

\* the paths a glob matches, and of them those whose name ends in .json,
\* in that letter case only or in any
Matching(path) == Glob(fs, resolve_path(path).path)

JsonNamed(path, anyCase) ==
    {q \in Matching(path) :
        LET suffix == NameOf(q)[Len(NameOf(q))]
        IN  suffix = ".json" \/ (anyCase /\ suffix = ".JSON")}

\* whether a path is a file whose bytes parse
Parses(q) == IsFile(fs, q.parts) /\ Loads(fs[q.parts].data).err = "none"

\* whether vals holds one parsed document for each of the paths in S
OneEach(vals, S) ==
    /\ Len(vals) = Cardinality(S)
    /\ \E o \in Orders(S) :
          \A i \in 1..Len(vals) : vals[i] = Loads(fs[o[i].parts].data).val

\* C13 as claimed: get_all_as_dict over a glob returns, without an error,
\* exactly one parsed mapping for each matching path with the suffix .json
\* and nothing for the others; the empty list when nothing matches.
C13_GetAllOnePerJson ==
    last.op = "get_all" =>
        /\ last.err = "none"
        /\ \A q \in JsonNamed(last.path, FALSE) : Parses(q)
        /\ OneEach(last.vals, JsonNamed(last.path, FALSE))

\* C13 as amended: get_all_as_dict takes the matching paths whose name ends
\* in .json in any letter case and ignores the others; when every one of
\* them is a file that parses it returns one parsed document for each (the
\* empty list when there is none); otherwise it fails and returns nothing.
C13_GetAll ==
    last.op = "get_all" =>
        IF \A q \in JsonNamed(last.path, TRUE) : Parses(q)
        THEN last.err = "none" /\ OneEach(last.vals, JsonNamed(last.path, TRUE))
        ELSE last.err # "none" /\ last.vals = <<>>

\* a listing of a directory holding two documents and a file without the
\* suffix has returned the two documents
C13_Witness ==
    /\ last.op = "get_all"
    /\ last.path = PathJoin(get_user_datasource_root(U), <<"*">>)
    /\ Children(fs, ScopeDir) = {<<"a", ".json">>, <<"b", ".JSON">>, <<"notes">>}
    /\ last.err = "none"
    /\ Len(last.vals) = 2

\* the documents of a scope that is read in whole
ValidDoc == Append(ScopeDir, <<"a", ".json">>)
CorruptDoc == Append(ScopeDir, <<"x", ".json">>)

\* C14: get_from_storage_as_dict of a file whose bytes are not JSON fails
\* with the decoder's error and of a missing path with the not-found error,
\* which differ; get_all_as_dict over a scope whose .json files are
\* documents of which at least one is corrupt fails with the decoder's
\* error and returns nothing, in whatever order the files are listed.
C14_Corrupt ==
    /\ last.op = "get" =>
          /\ (IsFile(fs, last.target) /\ Loads(fs[last.target].data).err # "none")
                => last.err = "JSONDecodeError"
          /\ ~last.existed => last.err = "ValueError:does_not_exist"
    /\ (/\ last.op = "get_all"
        /\ \A q \in JsonNamed(last.path, TRUE) : IsFile(fs, q.parts)
        /\ \E q \in JsonNamed(last.path, TRUE) : ~Parses(q))
          => last.err = "JSONDecodeError" /\ last.vals = <<>>

\* a scope of one valid and one corrupt document was listed with the valid
\* one first: it was read, and the call failed without a result
C14_Witness ==
    /\ last.op = "get_all"
    /\ Children(fs, ScopeDir) = {<<"a", ".json">>, <<"x", ".json">>}
    /\ last.touched = {ValidDoc, CorruptDoc}
    /\ last.err = "JSONDecodeError"
    /\ last.vals = <<>>

\* C15: every path getter, get_user_workflow_path without a user id
\* included, returns a path and raises nothing, and consults nothing on the
\* file system.
C15_PureTotal ==
    last.op \in {"get_user_workflow_path", "get_user_path"} =>
        /\ last.err = "none"
        /\ last.touched = {}

====
